---- MODULE Spec2Model ----
(***************************************************************************)
(* State-machine model of the quantum gate simulators of src/task_1.py:    *)
(* GateSimulator (gate algebra, CX, readout), GateSVSimulator (dense       *)
(* state vector) and GateTensorSimulator (rank-n tensor), together with    *)
(* the process-wide numpy random generator they all seed and draw from.    *)
(*                                                                         *)
(* Amplitudes.  Every matrix and state the program builds from I, X, H, Z  *)
(* and the basis vectors has entries in Z[1/sqrt 2].  A value is kept      *)
(* exactly as a record [e |-> integer entries, k |-> exponent] meaning     *)
(* e * (1/sqrt 2)^k.  Floating-point rounding is not modelled.             *)
(***************************************************************************)
EXTENDS Integers, Sequences, FiniteSets, TLC

VARIABLES
  rng,    \* internal state of the process-wide generator np.random
  gen,    \* which generator function the process runs (fixed per run)
  sims,   \* the simulator objects, by name
  owner,  \* the simulator whose call last seeded or advanced np.random
  out,    \* the readout value just returned to the caller, not yet used
  cx      \* a direct call of GateSimulator.CX and of its result on a basis state

vars == <<rng, gen, sims, owner, out, cx>>

---------------------------------------------------------------------------
(* Bounds of the model.                                                    *)

MaxN == 3
PairMaxN == 2
MaxRounds == 2
MaxSeed == 1
NumGen == 1

---------------------------------------------------------------------------
(* Integer helpers.                                                        *)

RECURSIVE Pow2(_)
Pow2(n) == IF n <= 0 THEN 1 ELSE 2 * Pow2(n - 1)

RECURSIVE SumSeq(_)
SumSeq(s) == IF Len(s) = 0 THEN 0 ELSE Head(s) + SumSeq(Tail(s))

RECURSIVE Concat(_)
Concat(ss) == IF Len(ss) = 0 THEN << >> ELSE Head(ss) \o Concat(Tail(ss))

Abs(v) == IF v < 0 THEN -v ELSE v

---------------------------------------------------------------------------
(* numpy matrices: a sequence of rows, each a sequence of integer entries, *)
(* with the common factor (1/sqrt 2)^k.                                    *)

\* a sequence given by a rule, written out in full once
Eager(s) == s \o << >>

\* a function given by a rule, written out in full once
EagerF(f) == f @@ << >>

Rows(A) == Len(A)
Cols(A) == Len(A[1])

\* A @ B on entries (numpy matmul of two 2-D operands)
MatMulE(A, B) ==
  LET ra == Rows(A)
      ca == Cols(A)
      cb == Cols(B)
  IN Eager([i \in 1..ra |->
              Eager([j \in 1..cb |-> SumSeq([m \in 1..ca |-> A[i][m] * B[m][j]])])])

\* np.kron(A, B) on entries
KronE(A, B) ==
  LET ra == Rows(A)
      ca == Cols(A)
      rb == Rows(B)
      cb == Cols(B)
  IN Eager([i \in 1..(ra * rb) |->
              Eager([j \in 1..(ca * cb) |->
                       A[((i - 1) \div rb) + 1][((j - 1) \div cb) + 1]
                         * B[((i - 1) % rb) + 1][((j - 1) % cb) + 1]])])

TransposeE(A) ==
  LET ra == Rows(A)
      ca == Cols(A)
  IN Eager([j \in 1..ca |-> Eager([i \in 1..ra |-> A[i][j]])])

\* entrywise A - B and A + B of two matrices of one shape
SubE(A, B) ==
  LET ra == Rows(A)
      ca == Cols(A)
  IN Eager([i \in 1..ra |-> Eager([j \in 1..ca |-> A[i][j] - B[i][j]])])

AddE(A, B) ==
  LET ra == Rows(A)
      ca == Cols(A)
  IN Eager([i \in 1..ra |-> Eager([j \in 1..ca |-> A[i][j] + B[i][j]])])

\* the raised exception, as a value
Raise == [err |-> TRUE]
IsError(v) == "err" \in DOMAIN v

\* A @ B; numpy raises ValueError on a shape mismatch
MatMul(A, B) ==
  IF IsError(A) \/ IsError(B) THEN Raise
  ELSE IF Cols(A.e) # Rows(B.e) THEN Raise
  ELSE [e |-> MatMulE(A.e, B.e), k |-> A.k + B.k]

\* np.kron(A, B)
Kron(A, B) == [e |-> KronE(A.e, B.e), k |-> A.k + B.k]

\* A.T
Transpose(A) == [e |-> TransposeE(A.e), k |-> A.k]

\* A + B for operands of one shape and one common factor (the two branches of CX)
MatAdd(A, B) == [e |-> AddE(A.e, B.e), k |-> A.k]

\* The same value with the smallest exponent: e*(1/sqrt 2)^k = (e/2)*(1/sqrt 2)^(k-2)
RECURSIVE Canon(_)
Canon(A) ==
  IF A.k >= 2 /\ \A i \in 1..Rows(A.e) : \A j \in 1..Cols(A.e) : A.e[i][j] % 2 = 0
  THEN Canon([e |-> Eager([i \in 1..Rows(A.e) |->
                             Eager([j \in 1..Cols(A.e) |-> A.e[i][j] \div 2])]),
              k |-> A.k - 2])
  ELSE A

---------------------------------------------------------------------------
(* GateSimulator.__init__: the single-qubit gates.                         *)

I == [e |-> <<<<1, 0>>, <<0, 1>>>>, k |-> 0]
X == [e |-> <<<<0, 1>>, <<1, 0>>>>, k |-> 0]
\* a Hadamard without its 1/np.sqrt(2) factor, for comparison
H_unnormalised == [e |-> <<<<1, 1>>, <<1, -1>>>>, k |-> 0]
\* (1/np.sqrt(2)) * [[1, 1], [1, -1]]
H == [e |-> <<<<1, 1>>, <<1, -1>>>>, k |-> 1]
Z == [e |-> <<<<1, 0>>, <<0, -1>>>>, k |-> 0]

\* GateSimulator.kronecker_product(*args): np.kron folded from [[1]]
RECURSIVE KronFrom(_, _)
KronFrom(result, args) ==
  IF Len(args) = 0 THEN result ELSE KronFrom(Kron(result, Head(args)), Tail(args))

kronecker_product(args) == KronFrom([e |-> <<<<1>>>>, k |-> 0], args)

\* bitstring characters are one-character strings
ValidBits(bitstring) == \A i \in 1..Len(bitstring) : bitstring[i] \in {"0", "1"}

zero == [e |-> <<<<1>>, <<0>>>>, k |-> 0]
one == [e |-> <<<<0>>, <<1>>>>, k |-> 0]

RECURSIVE StateFrom(_, _)
StateFrom(state, bitstring) ==
  IF Len(bitstring) = 0 THEN state
  ELSE StateFrom(Kron(state, IF Head(bitstring) = "1" THEN one ELSE zero),
                 Tail(bitstring))

\* GateSimulator.initialize_state(bitstring): the returned column vector,
\* or the exception for a character other than '0' and '1'
initialize_state(bitstring) ==
  IF ~ValidBits(bitstring) THEN Raise
  ELSE StateFrom([e |-> <<<<1>>>>, k |-> 0], bitstring)

\* For comparison: CX with qubit q placed at list index q (big-endian).
CX_bigEndian(n, control, target) ==
  IF control >= n \/ target >= n THEN Raise
  ELSE IF control = target THEN kronecker_product([i \in 1..n |-> I])
  ELSE
    LET P0 == MatMul(initialize_state(<<"0">>), Transpose(initialize_state(<<"0">>)))
        P1 == MatMul(initialize_state(<<"1">>), Transpose(initialize_state(<<"1">>)))
        zero_args == [Eager([i \in 1..n |-> I]) EXCEPT ![control + 1] = P0]
        one_args == [Eager([i \in 1..n |-> I]) EXCEPT ![control + 1] = P1, ![target + 1] = X]
    IN MatAdd(kronecker_product(zero_args), kronecker_product(one_args))

\* For comparison: CX without the branch for control == target.
CX_noIdentityBranch(n, control, target) ==
  IF control >= n \/ target >= n THEN Raise
  ELSE
    LET P0 == MatMul(initialize_state(<<"0">>), Transpose(initialize_state(<<"0">>)))
        P1 == MatMul(initialize_state(<<"1">>), Transpose(initialize_state(<<"1">>)))
        zero_args == [Eager([i \in 1..n |-> I]) EXCEPT ![n - control] = P0]
        one_args == [[Eager([i \in 1..n |-> I]) EXCEPT ![n - control] = P1]
                       EXCEPT ![n - target] = X]
    IN MatAdd(kronecker_product(zero_args), kronecker_product(one_args))

\* GateSimulator.CX(control, target) of a simulator of n qubits.
\* Python's list index -1 - q is position n - q of a 1-based sequence.
CX(n, control, target) ==
  IF control >= n \/ target >= n THEN Raise
  ELSE IF control = target THEN kronecker_product([i \in 1..n |-> I])
  ELSE
    LET P0 == MatMul(initialize_state(<<"0">>), Transpose(initialize_state(<<"0">>)))
        P1 == MatMul(initialize_state(<<"1">>), Transpose(initialize_state(<<"1">>)))
        zero_args == [Eager([i \in 1..n |-> I]) EXCEPT ![n - control] = P0]
        one_args == [Eager([i \in 1..n |-> I]) EXCEPT ![n - control] = P1, ![n - target] = X]
    IN MatAdd(kronecker_product(zero_args), kronecker_product(one_args))

\* GateSimulator.to_bin(dec): bin(dec)[2:].zfill(n)
RECURSIVE Bin(_)
Bin(dec) ==
  IF dec < 2 THEN <<IF dec = 1 THEN "1" ELSE "0">>
  ELSE Append(Bin(dec \div 2), IF dec % 2 = 1 THEN "1" ELSE "0")

RECURSIVE zfill(_, _)
zfill(s, width) == IF Len(s) >= width THEN s ELSE zfill(<<"0">> \o s, width)

\* for comparison: bin(dec)[2:] without the zfill
to_bin_unpadded(n, dec) == Bin(dec)

to_bin(n, dec) == zfill(Bin(dec), n)

---------------------------------------------------------------------------
(* The process-wide generator np.random.  numpy's generator is a fixed     *)
(* deterministic function of its internal state; which function is left   *)
(* open here: gen selects one of a family of full-period congruential      *)
(* generators, and every run keeps the one it started with.                *)

LcgModulus == 63
LcgA(g) == 1 + 21 * ((g % 2) + 1)
LcgC(g) == 3 * g + 2

\* one step of the generator
Step(g, x) == (LcgA(g) * x + LcgC(g)) % LcgModulus

\* np.random.seed(seed): the state the generator is put in
Seeded(seed) == (17 * seed + 5) % LcgModulus

\* the value np.random.randint(0, high) reads off the generator state x
RandValue(x, high) == (x * high) \div LcgModulus

\* the generator after count more draws
RECURSIVE Skip(_, _, _)
Skip(g, x, count) == IF count = 0 THEN x ELSE Skip(g, Step(g, x), count - 1)

\* np.random.choice(['0', '1'], size=n): the characters drawn, first to last
RECURSIVE ChoiceBits(_, _, _)
ChoiceBits(g, x, size) ==
  IF size = 0 THEN << >>
  ELSE <<IF RandValue(Step(g, x), 2) = 1 THEN "1" ELSE "0">>
         \o ChoiceBits(g, Step(g, x), size - 1)

\* while target == control: target = np.random.randint(0, n)
RECURSIVE Retarget(_, _, _, _, _)
Retarget(g, x, n, control, target) ==
  IF target # control THEN [target |-> target, rng |-> x]
  ELSE Retarget(g, Step(g, x), n, control, RandValue(Step(g, x), n))

\* control = randint(0, n); target = randint(0, n); the while loop
DrawPair(g, x, n) ==
  LET x1 == Step(g, x)
      x2 == Step(g, x1)
      control == RandValue(x1, n)
      r == Retarget(g, x2, n, control, RandValue(x2, n))
  IN [control |-> control, target |-> r.target, rng |-> r.rng]

SeedHigh == 1000000
SampleSize == 1024

---------------------------------------------------------------------------
(* Tensor states: a function from multi-indices (tuples of 0/1, one per    *)
(* axis) to entries, with the common factor (1/sqrt 2)^k.                  *)

Indices(n) == [1..n -> {0, 1}]

\* the flat (C-order) position of a multi-index
RECURSIVE FlatIndex(_)
FlatIndex(idx) ==
  IF Len(idx) = 0 THEN 0
  ELSE 2 * FlatIndex(SubSeq(idx, 1, Len(idx) - 1)) + idx[Len(idx)]

\* the multi-index of rank n at flat position d
MultiIndex(n, d) == [j \in 1..n |-> (d \div Pow2(n - j)) % 2]

\* self.state.flatten(), as a column
Flatten(n, T) ==
  [e |-> Eager([i \in 1..Pow2(n) |-> <<T.e[MultiIndex(n, i - 1)]>>]), k |-> T.k]

\* vector.reshape([2 for i in range(n)])
Reshape(n, V) ==
  [e |-> EagerF([idx \in Indices(n) |-> V.e[FlatIndex(idx) + 1][1]]), k |-> V.k]

\* the same tensor with the smallest exponent
RECURSIVE CanonT(_, _)
CanonT(n, T) ==
  IF T.k >= 2 /\ \A idx \in Indices(n) : T.e[idx] % 2 = 0
  THEN CanonT(n, [e |-> EagerF([idx \in Indices(n) |-> T.e[idx] \div 2]),
                  k |-> T.k - 2])
  ELSE T

Alphabet == <<"a", "b", "c", "d", "e", "f", "g", "h", "i", "j", "k", "l", "m">>

\* ''.join([chr(ord('b') + i) for i in range(n)])
QubitsEin(n) == [i \in 1..n |-> Alphabet[i + 1]]

\* str.replace(old, new) on a sequence of characters
Replace(s, old, new) == [i \in 1..Len(s) |-> IF s[i] = old THEN new ELSE s[i]]

Position(s, c) == CHOOSE i \in 1..Len(s) : s[i] = c
Letters(s) == {s[i] : i \in 1..Len(s)}

RECURSIVE SumOver(_, _)
SumOver(S, f) ==
  IF S = {} THEN 0
  ELSE LET a == CHOOSE a \in S : TRUE IN f[a] + SumOver(S \ {a}, f)

\* np.einsum(f'{ein_inp}, {qubits_ein} -> {ein_out}', gate, state): the
\* letters absent from ein_out are summed over
Einsum(ein_inp, qubits_ein, ein_out, gate, T) ==
  LET kept == Letters(ein_out)
      summed == (Letters(ein_inp) \cup Letters(qubits_ein)) \ kept
      sigmas == [summed -> {0, 1}]
      axis == EagerF([c \in kept |-> Position(ein_out, c)])
      row == ein_inp[1]
      col == ein_inp[2]
      rank == Len(qubits_ein)
      value(idx, sigma, c) == IF c \in kept THEN idx[axis[c]] ELSE sigma[c]
      term(idx, sigma) ==
        gate.e[value(idx, sigma, row) + 1][value(idx, sigma, col) + 1]
          * T.e[[j \in 1..rank |-> value(idx, sigma, qubits_ein[j])]]
  IN [e |-> EagerF([idx \in Indices(Len(ein_out)) |->
                      SumOver(sigmas, [sigma \in sigmas |-> term(idx, sigma)])]),
      k |-> gate.k + T.k]

---------------------------------------------------------------------------
(* Readout: bra-ket rendering.  A string is a sequence of characters.      *)

DigitChars == <<"0", "1", "2", "3", "4", "5", "6", "7", "8", "9">>

RECURSIVE Decimal(_)
Decimal(v) ==
  IF v < 10 THEN <<DigitChars[v + 1]>>
  ELSE Append(Decimal(v \div 10), DigitChars[(v % 10) + 1])

\* 1e-20 lies between 2^-67 and 2^-66
ThresholdBits == 66

\* amplitude > 1e-10, for the amplitude e * (1/sqrt 2)^k
AboveThreshold(e, k) ==
  e > 0 /\ (k <= ThresholdBits \/ e * e > Pow2(k - ThresholdBits))

\* the largest m in lo..hi-1 with (2m - 1)^2 <= q, given that lo is one
RECURSIVE LastHalfBelow(_, _, _)
LastHalfBelow(lo, hi, q) ==
  IF hi - lo <= 1 THEN lo
  ELSE LET mid == (lo + hi) \div 2
       IN IF (2 * mid - 1) * (2 * mid - 1) <= q
          THEN LastHalfBelow(mid, hi, q) ELSE LastHalfBelow(lo, mid, q)

\* round(1000 * |e| * (1/sqrt 2)^k), ties to even, as the .3f format rounds
Milli(e, k) ==
  LET q == (4000000 * e * e) \div Pow2(k)
      m == LastHalfBelow(0, 1000 * Abs(e) + 1, q)
      tie == m > 0 /\ (4000000 * e * e) % Pow2(k) = 0
                   /\ (2 * m - 1) * (2 * m - 1) = q
  IN IF tie /\ m % 2 = 1 THEN m - 1 ELSE m

\* f"{abs(amplitude):.3f}"
Format3(e, k) ==
  LET m == Milli(e, k)
  IN Decimal(m \div 1000) \o <<".">>
       \o <<DigitChars[((m \div 100) % 10) + 1], DigitChars[((m \div 10) % 10) + 1],
            DigitChars[(m % 10) + 1]>>

\* one term appended to the string braket
BraketTerm(braket, e, k, label) ==
  (IF Len(braket) > 0 THEN <<" ", (IF e > 0 THEN "+" ELSE "-"), " ">> ELSE << >>)
    \o <<"(">> \o Format3(e, k) \o <<")", "|">> \o label \o <<"⟩">>

\* GateSVSimulator.state_to_braket: the loop over np.where(self.state != 0)[0]
RECURSIVE BraketSV(_, _, _, _)
BraketSV(n, state, d, braket) ==
  IF d >= Rows(state.e) THEN braket
  ELSE LET v == state.e[d + 1][1]
           amplitude == IF v # 0 /\ AboveThreshold(v, state.k) THEN v ELSE 0
       IN BraketSV(n, state, d + 1,
                   IF amplitude # 0
                   THEN braket \o BraketTerm(braket, amplitude, state.k, to_bin(n, d))
                   ELSE braket)

\* GateTensorSimulator.state_to_braket: the loop over np.where(self.state > 0)
RECURSIVE BraketTensor(_, _, _, _)
BraketTensor(n, T, d, braket) ==
  IF d >= Pow2(n) THEN braket
  ELSE LET q == MultiIndex(n, d)
           amplitude == T.e[q]
       IN BraketTensor(n, T, d + 1,
                       IF amplitude > 0 /\ AboveThreshold(amplitude, T.k)
                       THEN braket \o BraketTerm(braket, amplitude, T.k,
                                                 [j \in 1..n |-> DigitChars[q[j] + 1]])
                       ELSE braket)

state_to_braket(sim) ==
  IF sim.engine = "sv" THEN BraketSV(sim.n, sim.state, 0, << >>)
  ELSE BraketTensor(sim.n, sim.state, 0, << >>)

\* the first position from i on where s holds the character c, or 0
FirstAt(s, i, c) ==
  LET found == {p \in i..Len(s) : s[p] = c}
  IN IF found = {} THEN 0 ELSE CHOOSE p \in found : \A q \in found : p <= q

\* re.findall on a character sequence: the non-greedy matches open .*? close,
\* scanned left to right from position i
RECURSIVE FindAll(_, _, _, _)
FindAll(s, i, open, close) ==
  LET p == FirstAt(s, i, open)
      j == IF p = 0 THEN 0 ELSE FirstAt(s, p + 1, close)
  IN IF j = 0 THEN << >>
     ELSE <<SubSeq(s, p, j)>> \o FindAll(s, j + 1, open, close)

\* re.findall(r'\|.*?\⟩', braket)
ParseKets(braket) == FindAll(braket, 1, "|", "⟩")

DigitValue(c) == (CHOOSE i \in 1..10 : DigitChars[i] = c) - 1

\* float(text) of a d.ddd literal, in thousandths
RECURSIVE ParseMilli(_, _)
ParseMilli(text, acc) ==
  IF Len(text) = 0 THEN acc
  ELSE IF Head(text) = "." THEN ParseMilli(Tail(text), acc)
  ELSE ParseMilli(Tail(text), 10 * acc + DigitValue(Head(text)))

\* np.array(re.findall(r'\((.*?)\)', braket), dtype=float)
ParseAmplitudes(braket) ==
  LET found == FindAll(braket, 1, "(", ")")
  IN [i \in 1..Len(found) |-> ParseMilli(SubSeq(found[i], 2, Len(found[i]) - 1), 0)]

---------------------------------------------------------------------------
(* Readout: expectation values.  Y is complex, so the lifted observable    *)
(* is kept as real and imaginary parts.                                    *)

Zero2 == <<<<0, 0>>, <<0, 0>>>>

GateNames == {"X", "H", "I", "Y", "Z"}

\* the chain with Pauli-X in the final else branch
GateC_defaultX(gate) ==
  CASE gate = "H" -> [re |-> H.e, im |-> Zero2, k |-> H.k]
    [] gate = "Y" -> [re |-> Zero2, im |-> <<<<0, -1>>, <<1, 0>>>>, k |-> 0]
    [] gate = "Z" -> [re |-> Z.e, im |-> Zero2, k |-> Z.k]
    [] OTHER -> [re |-> X.e, im |-> Zero2, k |-> X.k]

\* the if/elif chain of calculate_expectation_value
GateC(gate) ==
  CASE gate = "X" -> [re |-> X.e, im |-> Zero2, k |-> X.k]
    [] gate = "H" -> [re |-> H.e, im |-> Zero2, k |-> H.k]
    [] gate = "Y" -> [re |-> Zero2, im |-> <<<<0, -1>>, <<1, 0>>>>, k |-> 0]
    [] gate = "Z" -> [re |-> Z.e, im |-> Zero2, k |-> Z.k]
    [] OTHER -> [re |-> I.e, im |-> Zero2, k |-> I.k]

\* np.kron of two complex matrices
KronC(A, B) ==
  [re |-> SubE(KronE(A.re, B.re), KronE(A.im, B.im)),
   im |-> AddE(KronE(A.re, B.im), KronE(A.im, B.re)),
   k |-> A.k + B.k]

RECURSIVE KronCFrom(_, _, _)
KronCFrom(result, gate, count) ==
  IF count = 0 THEN result ELSE KronCFrom(KronC(result, gate), gate, count - 1)

\* a scalar num * (1/sqrt 2)^k with the smallest exponent
RECURSIVE CanonScalar(_)
CanonScalar(v) ==
  IF v.num = 0 THEN [num |-> 0, k |-> 0]
  ELSE IF v.k >= 2 /\ v.num % 2 = 0 THEN CanonScalar([num |-> v.num \div 2, k |-> v.k - 2])
  ELSE v

\* np.matrix(self.state.flatten()): the state as one row
StateRow(sim) ==
  IF sim.engine = "sv"
  THEN [e |-> <<Concat(sim.state.e)>>, k |-> sim.state.k]
  ELSE Transpose(Flatten(sim.n, sim.state))

\* GateSimulator.calculate_expectation_value(gate): the returned float, or the
\* exception (unknown gate; operands of matmul that do not fit)
calculate_expectation_value(sim, gate) ==
  IF gate \notin GateNames THEN Raise
  ELSE
    LET state == StateRow(sim)
        Gate_n == KronCFrom([re |-> <<<<1>>>>, im |-> <<<<0>>>>, k |-> 0],
                            GateC(gate), sim.n)
        product == MatMul(MatMul(state, [e |-> Gate_n.re, k |-> Gate_n.k]),
                          Transpose(state))
    IN IF IsError(product) THEN Raise
       ELSE CanonScalar([num |-> product.e[1][1], k |-> product.k])

\* whether calculate_expectation_value(gate) raises: the gate is not found, or
\* the flattened state does not fit the 2^n columns of the lifted gate
ExpectationRaises(sim, gate) ==
  gate \notin GateNames \/ Cols(StateRow(sim).e) # Pow2(sim.n)

---------------------------------------------------------------------------
(* The simulator objects.                                                  *)

Sims == {"A", "B"}

\* An optional argument is << >> (None) or <<value>>.
None == << >>
Some(v) == <<v>>

NoState == [e |-> << >>, k |-> 0]

NoSim ==
  [status |-> "none", engine |-> "sv", n |-> 0, stateArg |-> None, seedArg |-> None,
   seed |-> 0, bitstring |-> << >>, state |-> NoState, args |-> None,
   rounds |-> 0, ops |-> << >>, draws |-> << >>, clean |-> TRUE]

\* GateSimulator.__init__: self.seed and the generator after np.random.seed.
\* "seed if seed else ..." takes the else branch for None and for 0.
BaseInit(g, x, seedArg) ==
  LET given == seedArg # None /\ seedArg[1] # 0
      seed == IF given THEN seedArg[1] ELSE RandValue(Step(g, x), SeedHigh)
  IN [seed |-> seed, rng |-> Seeded(seed)]

\* "state if state else ...": None and '' take the else branch
Given(stateArg) == stateArg # None /\ Len(stateArg[1]) > 0

\* GateSVSimulator.__init__ after super().__init__: the bitstring is drawn
\* whether or not a state is supplied
InitSV(g, x, n, stateArg) ==
  LET drawn == ChoiceBits(g, x, n)
      bitstring == IF Given(stateArg) THEN stateArg[1] ELSE drawn
  IN [bitstring |-> bitstring, state |-> initialize_state(bitstring),
      rng |-> Skip(g, x, n)]

\* GateTensorSimulator.__init__ after super().__init__: int(bit) raises on a
\* non-digit, the index raises on a digit above 1 or on more than n digits,
\* and fewer than n digits address a whole slice
InitTensor(g, x, n, stateArg) ==
  LET bitstring == IF Given(stateArg) THEN stateArg[1] ELSE ChoiceBits(g, x, n)
  IN [bitstring |-> bitstring,
      state |-> IF ~ValidBits(bitstring) \/ Len(bitstring) > n THEN Raise
                ELSE [e |-> EagerF([idx \in Indices(n) |->
                                      IF \A j \in 1..Len(bitstring) :
                                           idx[j] = DigitValue(bitstring[j])
                                      THEN 1 ELSE 0]),
                      k |-> 0],
      rng |-> IF Given(stateArg) THEN x ELSE Skip(g, x, n)]

\* make_operations with the Identity of an odd n between the two halves
MakeSV_identityMiddle(g, x, n) ==
  IF n < 2 THEN [args |-> [operations |-> H, CX |-> I], pair |-> << >>, rng |-> x]
  ELSE
    LET num_of_H == n \div 2
        num_of_X == n \div 2
        operations_list == [i \in 1..num_of_H |-> H]
                             \o (IF 2 * num_of_H < n THEN <<I>> ELSE << >>)
                             \o [i \in 1..num_of_X |-> X]
        p == DrawPair(g, x, n)
    IN [args |-> [operations |-> kronecker_product(operations_list),
                  CX |-> CX(n, p.control, p.target)],
        pair |-> <<p.control, p.target>>, rng |-> p.rng]

\* GateSVSimulator.make_operations: (operations, CX) and the generator after
MakeSV(g, x, n) ==
  IF n < 2 THEN [args |-> [operations |-> H, CX |-> I], pair |-> << >>, rng |-> x]
  ELSE
    LET num_of_H == n \div 2
        num_of_X == n \div 2
        halves == [i \in 1..num_of_H |-> H] \o [i \in 1..num_of_X |-> X]
        operations_list == IF Len(halves) < n THEN Append(halves, I) ELSE halves
        p == DrawPair(g, x, n)
    IN [args |-> [operations |-> kronecker_product(operations_list),
                  CX |-> CX(n, p.control, p.target)],
        pair |-> <<p.control, p.target>>, rng |-> p.rng]

Reverse(s) == [i \in 1..Len(s) |-> s[Len(s) + 1 - i]]

\* GateTensorSimulator.make_operations: (operations_list, CX, qubits_ein)
MakeTensor(g, x, n) ==
  LET qubits_ein == QubitsEin(n)
  IN IF n < 2
     THEN [args |-> [operations |-> <<[gate |-> H, ein_inp |-> <<"a", "b">>,
                                       ein_out |-> <<"a">>]>>,
                     CX |-> I, qubits_ein |-> qubits_ein],
           pair |-> << >>, rng |-> x]
     ELSE
       LET num_of_H == n \div 2
           num_of_X == n \div 2
           step(gate, i) ==
             [gate |-> gate, ein_inp |-> <<"a", qubits_ein[i + 1]>>,
              ein_out |-> Replace(qubits_ein, qubits_ein[i + 1], "a")]
           operations_list ==
             [i \in 1..num_of_H |-> step(H, i - 1)]
               \o [i \in 1..num_of_X |-> step(X, i - 1 + num_of_H)]
           p == DrawPair(g, x, n)
       IN [args |-> [operations |-> Reverse(operations_list),
                     CX |-> CX(n, p.control, p.target), qubits_ein |-> qubits_ein],
           pair |-> <<p.control, p.target>>, rng |-> p.rng]

make_operations(sim, g, x) ==
  IF sim.engine = "sv" THEN MakeSV(g, x, sim.n) ELSE MakeTensor(g, x, sim.n)

\* GateSVSimulator.apply_operations: CX @ operations @ self.state.  The
\* product is associative on exact entries; it is taken from the right.
ApplySV(state, args) ==
  LET new == MatMul(args.CX, MatMul(args.operations, state))
  IN IF IsError(new) THEN Raise ELSE Canon(new)

RECURSIVE EinsumAll(_, _, _)
EinsumAll(operations, qubits_ein, T) ==
  IF Len(operations) = 0 THEN T
  ELSE EinsumAll(Tail(operations), qubits_ein,
                 Einsum(Head(operations).ein_inp, qubits_ein, Head(operations).ein_out,
                        Head(operations).gate, T))

\* GateTensorSimulator.apply_operations: the einsum loop, then CX on the
\* flattened state, then the reshape
ApplyTensor(n, T, args) ==
  LET local == EinsumAll(args.operations, args.qubits_ein, T)
      new == MatMul(args.CX, Flatten(n, local))
  IN IF IsError(new) THEN Raise ELSE CanonT(n, Reshape(n, new))

apply_operations(sim, args) ==
  IF sim.engine = "sv" THEN ApplySV(sim.state, args)
  ELSE ApplyTensor(sim.n, sim.state, args)

\* For comparison: a readout that collapses the state onto its first
\* nonzero position, as a projective measurement would.
StateAfterReadout_collapse(sim) ==
  IF sim.engine = "sv"
  THEN LET first == CHOOSE i \in 1..Rows(sim.state.e) :
                      /\ sim.state.e[i][1] # 0
                      /\ \A j \in 1..(i - 1) : sim.state.e[j][1] = 0
       IN [e |-> [i \in 1..Rows(sim.state.e) |-> <<IF i = first THEN 1 ELSE 0>>],
           k |-> 0]
  ELSE LET first == CHOOSE d \in 0..(Pow2(sim.n) - 1) :
                      /\ sim.state.e[MultiIndex(sim.n, d)] # 0
                      /\ \A c \in 0..(d - 1) : sim.state.e[MultiIndex(sim.n, c)] = 0
       IN [e |-> [idx \in Indices(sim.n) |-> IF FlatIndex(idx) = first THEN 1 ELSE 0],
           k |-> 0]

\* self.state after a call of state_to_braket or calculate_expectation_value:
\* neither assigns to it
StateAfterReadout(sim) == sim.state

---------------------------------------------------------------------------
(* The calls.                                                              *)

NoOut == [op |-> "none", sim |-> "none", raised |-> FALSE]

\* the name s is not bound to a simulator yet and no call is in progress
Unbound(s) == out = NoOut /\ sims[s].status = "none"

\* GateSVSimulator(n, state, seed) or GateTensorSimulator(n, state, seed),
\* bound to the name s
Construct(s, engine, n, stateArg, seedArg) ==
  /\ Unbound(s)
  /\ \E base \in {BaseInit(gen, rng, seedArg)} :
       \E init \in {IF engine = "sv" THEN InitSV(gen, base.rng, n, stateArg)
                    ELSE InitTensor(gen, base.rng, n, stateArg)} :
         \E made \in {[NoSim EXCEPT !.engine = engine, !.n = n, !.stateArg = stateArg,
                                   !.seedArg = seedArg, !.seed = base.seed]} :
           /\ sims' = [sims EXCEPT ![s] =
                         IF IsError(init.state) THEN [made EXCEPT !.status = "error"]
                         ELSE [made EXCEPT !.status = "ok",
                                           !.bitstring = init.bitstring,
                                           !.state = init.state]]
           /\ rng' = init.rng
  /\ owner' = s
  /\ UNCHANGED <<gen, out, cx>>

\* args = s.make_operations()
Make(s) ==
  /\ out = NoOut
  /\ sims[s].status = "ok"
  /\ sims[s].rounds < MaxRounds
  /\ \E m \in {make_operations(sims[s], gen, rng)} :
       /\ sims' = [sims EXCEPT ![s].args = Some(m.args),
                               ![s].rounds = @ + 1,
                               ![s].ops = Append(@, "make"),
                               ![s].draws = IF m.pair = << >> THEN @ ELSE Append(@, m.pair),
                               ![s].clean = @ /\ (m.pair = << >> \/ owner = s)]
       /\ rng' = m.rng
       /\ owner' = IF m.pair = << >> THEN owner ELSE s
  /\ UNCHANGED <<gen, out, cx>>

\* s.apply_operations(*args)
Apply(s) ==
  /\ out = NoOut
  /\ sims[s].status = "ok"
  /\ sims[s].args # None
  /\ \E new \in {apply_operations(sims[s], sims[s].args[1])} :
       sims' = IF IsError(new)
               THEN [sims EXCEPT ![s].args = None,
                                 ![s].ops = Append(@, "apply raised")]
               ELSE [sims EXCEPT ![s].state = new,
                                 ![s].args = None,
                                 ![s].ops = Append(@, "apply")]
  /\ UNCHANGED <<rng, gen, owner, out, cx>>

\* print(s.state_to_braket())
Braket(s) ==
  /\ out = NoOut
  /\ sims[s].status = "ok"
  /\ sims' = [sims EXCEPT ![s].state = StateAfterReadout(sims[s])]
  /\ out' = [op |-> "braket", sim |-> s, raised |-> FALSE]
  /\ UNCHANGED <<rng, gen, owner, cx>>

\* print(s.calculate_expectation_value(gate))
Expectation(s, gate) ==
  /\ out = NoOut
  /\ sims[s].status = "ok"
  /\ LET raised == ExpectationRaises(sims[s], gate)
     IN /\ sims' = [sims EXCEPT ![s].state =
                      IF raised THEN @ ELSE StateAfterReadout(sims[s])]
        /\ out' = [op |-> "expectation", sim |-> s, raised |-> raised]
  /\ UNCHANGED <<rng, gen, owner, cx>>

\* the caller has printed the returned value (or caught the exception)
Printed ==
  /\ out # NoOut
  /\ out' = NoOut
  /\ UNCHANGED <<rng, gen, sims, owner, cx>>

\* s.sample_probability(): a round of make_operations and apply_operations,
\* then the bra-ket string parsed back and SampleSize draws from np.random
Sample(s) ==
  /\ out = NoOut
  /\ sims[s].status = "ok"
  /\ sims[s].rounds < MaxRounds
  /\ \E m \in {make_operations(sims[s], gen, rng)} :
       \E new \in {apply_operations(sims[s], m.args)} :
         \E drew \in {[sims[s] EXCEPT
                         !.rounds = @ + 1,
                         !.draws = IF m.pair = << >> THEN @ ELSE Append(@, m.pair),
                         !.clean = @ /\ owner = s]} :
           IF IsError(new)
           THEN /\ sims' = [sims EXCEPT ![s] =
                              [drew EXCEPT !.ops = Append(@, "sample raised")]]
                /\ rng' = m.rng
           ELSE \E after \in {[drew EXCEPT !.state = new, !.ops = Append(@, "sample")]} :
                  \E braket \in {state_to_braket(after)} :
                    \E amplitudes \in {ParseAmplitudes(braket)}, kets \in {ParseKets(braket)} :
                      /\ sims' = [sims EXCEPT ![s] = after]
                      /\ rng' = IF Len(kets) = 0
                                    \/ SumSeq([i \in 1..Len(amplitudes) |->
                                                 amplitudes[i] * amplitudes[i]]) = 0
                                 THEN m.rng
                                 ELSE Skip(gen, m.rng, SampleSize % LcgModulus)
  /\ owner' = s
  /\ UNCHANGED <<gen, out, cx>>

---------------------------------------------------------------------------
(* A direct call of CX and of its result on a basis state.                 *)

CxIdle == [phase |-> "idle", n |-> 0, control |-> 0, target |-> 0, d |-> 0,
           result |-> NoState, out |-> NoState]

\* sim.CX(control, target)
CallCX ==
  /\ cx.phase = "call"
  /\ cx' = [cx EXCEPT !.phase = "built", !.result = CX(cx.n, cx.control, cx.target)]
  /\ UNCHANGED <<rng, gen, sims, owner, out>>

\* result @ sim.initialize_state(sim.to_bin(d))
ApplyCX ==
  /\ cx.phase = "built"
  /\ ~IsError(cx.result)
  /\ cx' = [cx EXCEPT !.phase = "applied",
                      !.out = MatMul(cx.result, initialize_state(to_bin(cx.n, cx.d)))]
  /\ UNCHANGED <<rng, gen, sims, owner, out>>

---------------------------------------------------------------------------
(* Arguments of the calls.                                                 *)

Bitstrings(n) == [1..n -> {"0", "1"}]

\* bitstrings a constructor of n qubits must refuse: one character short,
\* one long, and of length n with a character that is no bit
BadBitstrings(n) ==
  {[i \in 1..(n - 1) |-> "1"], [i \in 1..(n + 1) |-> "1"],
   [i \in 1..n |-> IF i = n THEN "a" ELSE "0"],
   [i \in 1..n |-> IF i = 1 THEN "2" ELSE "1"]}

StateArgs(n) ==
  {None} \cup {Some(b) : b \in Bitstrings(n)} \cup {Some(b) : b \in BadBitstrings(n)}

SeedArgs == {None} \cup {Some(v) : v \in 0..MaxSeed}

Idle ==
  /\ sims = [s \in Sims |-> NoSim]
  /\ owner = "none"
  /\ out = NoOut

\* a fresh process: the generator is unseeded, its state arbitrary
Init ==
  /\ rng \in 0..MaxSeed
  /\ gen \in 0..(NumGen - 1)
  /\ Idle
  /\ cx = CxIdle

\* one simulator, driven by one caller
Next ==
  \/ /\ Unbound("A")
     /\ \E engine \in {"sv", "tensor"}, n \in 1..MaxN, seedArg \in SeedArgs :
          \E stateArg \in StateArgs(n) : Construct("A", engine, n, stateArg, seedArg)
  \/ Make("A")
  \/ Apply("A")
  \/ Braket("A")
  \/ \E gate \in GateNames \cup {"T"} : Expectation("A", gate)
  \/ Sample("A")
  \/ Printed

Spec == Init /\ [][Next]_vars

InitCX ==
  /\ rng = 0
  /\ gen = 0
  /\ Idle
  /\ \E n \in 1..MaxN : \E control \in 0..n, target \in 0..n, d \in 0..(Pow2(n) - 1) :
       cx = [CxIdle EXCEPT !.phase = "call", !.n = n, !.control = control,
                           !.target = target, !.d = d]

NextCX == CallCX \/ ApplyCX

SpecCX == InitCX /\ [][NextCX]_vars

\* the bitstrings a caller of two simulators passes: none, or n bits
PairStateArgs(n) == {None} \cup {Some(b) : b \in Bitstrings(n)}

\* two simulators in one process: A, then B built with A's arguments (on
\* either engine), their calls interleaved in any order
NextPair ==
  \/ /\ Unbound("A")
     /\ \E engine \in {"sv", "tensor"}, n \in 1..PairMaxN, seedArg \in SeedArgs :
          \E stateArg \in PairStateArgs(n) : Construct("A", engine, n, stateArg, seedArg)
  \/ /\ sims["A"].status = "ok"
     /\ \E engine \in {"sv", "tensor"} :
          Construct("B", engine, sims["A"].n, sims["A"].stateArg, sims["A"].seedArg)
  \/ \E s \in Sims : Make(s)
  \/ \E s \in Sims : Apply(s)
  \/ \E s \in Sims : Sample(s)

SpecPair == Init /\ [][NextPair]_vars

\* the observables whose expectation values a caller reads
Observables == {"X", "Y", "Z", "I"}

\* one simulator built on a basis state and taken through rounds, its
\* expectation values read after any of them
NextExpectation ==
  \/ /\ Unbound("A")
     /\ \E engine \in {"sv", "tensor"}, n \in 1..MaxN, seedArg \in SeedArgs :
          \E stateArg \in PairStateArgs(n) : Construct("A", engine, n, stateArg, seedArg)
  \/ Make("A")
  \/ Apply("A")
  \/ \E gate \in Observables : Expectation("A", gate)
  \/ Printed

SpecExpectation == Init /\ [][NextExpectation]_vars

---------------------------------------------------------------------------
(* Vocabulary of the properties.                                           *)

\* the bit of qubit q in the basis position d: qubit 0 is the least
\* significant
BitOf(d, q) == (d \div Pow2(q)) % 2

\* the basis position d with the bit of qubit q flipped
FlipBit(d, q) == IF BitOf(d, q) = 0 THEN d + Pow2(q) ELSE d - Pow2(q)

\* the column of 2^n entries that is one at position d and zero elsewhere
BasisColumn(n, d) == [i \in 1..Pow2(n) |-> <<IF i = d + 1 THEN 1 ELSE 0>>]

\* the 2^n x 2^n identity, entry by entry
IdentityE(n) == [i \in 1..Pow2(n) |-> [j \in 1..Pow2(n) |-> IF i = j THEN 1 ELSE 0]]

\* the zero-padded binary representation of d on n characters
Label(n, d) == [j \in 1..n |-> IF BitOf(d, n - j) = 1 THEN "1" ELSE "0"]

\* the characters of a tensor multi-index
LabelOf(idx) == [j \in 1..Len(idx) |-> IF idx[j] = 1 THEN "1" ELSE "0"]

\* the simulator was built on a bitstring of its n qubits (given or drawn)
WellFormed(sim) == sim.status = "ok" /\ Len(sim.bitstring) = sim.n

\* the simulator was built on an explicitly supplied bitstring of length n
Explicit(sim) ==
  /\ WellFormed(sim)
  /\ sim.stateArg # None
  /\ sim.stateArg[1] = sim.bitstring

\* the integer entry at basis position d of a simulator's state
EntryAt(sim, d) ==
  IF sim.engine = "sv" THEN sim.state.e[d + 1][1]
  ELSE sim.state.e[MultiIndex(sim.n, d)]

Positions(sim) == 0..(Pow2(sim.n) - 1)

\* sum of the squared entries; the squared norm is this times (1/2)^k
SquaredEntries(sim) ==
  SumSeq([i \in 1..Pow2(sim.n) |-> EntryAt(sim, i - 1) * EntryAt(sim, i - 1)])

---------------------------------------------------------------------------
(* C1, C8: the operator CX builds.                                         *)

\* C1: for n >= 2 and control # target below n, CX(control, target) sends the
\* basis state at position d to one basis state: position d itself when the
\* bit of the control qubit is 0, and d with exactly the bit of the target
\* qubit flipped when it is 1; qubit q is bit q of the position.
C1_CXOnBasisStates ==
  (cx.phase = "applied" /\ cx.n >= 2 /\ cx.control # cx.target)
    => cx.out = [e |-> BasisColumn(cx.n,
                                   IF BitOf(cx.d, cx.control) = 0 THEN cx.d
                                   ELSE FlipBit(cx.d, cx.target)),
                 k |-> 0]

C1_Witness ==
  /\ cx.phase = "applied"
  /\ cx.n = 3 /\ cx.control = 2 /\ cx.target = 0 /\ cx.d = 5
  /\ cx.out.e = BasisColumn(3, 4)

\* C8: for n >= 1 and q below n, CX(q, q) raises nothing and returns the
\* 2^n x 2^n identity; for n = 1 that is the 2 x 2 identity.
C8_CXSameQubitIsIdentity ==
  (cx.phase \in {"built", "applied"} /\ cx.control = cx.target /\ cx.control < cx.n)
    => /\ ~IsError(cx.result)
       /\ cx.result = [e |-> IdentityE(cx.n), k |-> 0]

C8_Witness ==
  /\ cx.phase = "built"
  /\ cx.n = 1 /\ cx.control = 0 /\ cx.target = 0
  /\ cx.result.e = <<<<1, 0>>, <<0, 1>>>>

---------------------------------------------------------------------------
(* C4, C10: the state of one simulator.                                    *)

C10_InitialState ==
  \A s \in Sims :
    (Explicit(sims[s]) /\ sims[s].ops = << >>)
      => /\ sims[s].state.k = 0
         /\ \A d \in Positions(sims[s]) :
              EntryAt(sims[s], d) =
                (IF Label(sims[s].n, d) = sims[s].bitstring THEN 1 ELSE 0)
         /\ state_to_braket(sims[s])
              = <<"(", "1", ".", "0", "0", "0", ")", "|">>
                  \o sims[s].bitstring \o <<"⟩">>

C10_Witness ==
  /\ Explicit(sims["A"])
  /\ sims["A"].engine = "sv" /\ sims["A"].bitstring = <<"0", "1", "1">>
  /\ sims["A"].ops = << >>
  /\ out.op = "braket"
  /\ EntryAt(sims["A"], 3) = 1

---------------------------------------------------------------------------
(* C3: what the readouts leave alone.                                      *)

\* the step is a call of state_to_braket or of calculate_expectation_value
ReadoutCall == out = NoOut /\ out' # NoOut

\* the step is a call of sample_probability
SampleCall ==
  \E s \in Sims :
    /\ Len(sims'[s].ops) = Len(sims[s].ops) + 1
    /\ sims'[s].ops[Len(sims'[s].ops)] \in {"sample", "sample raised"}

StateKept == \A s \in Sims : sims'[s].state = sims[s].state

\* C3 (as the code has it): state_to_braket and calculate_expectation_value
\* leave the state and the generator as they were; sample_probability does
\* not: it first runs one round, make_operations then apply_operations, and
\* the state it leaves is the state after that round, never a collapsed one.
C3_ReadoutsAndSampling ==
  [][/\ ReadoutCall => (StateKept /\ rng' = rng)
     /\ \A s \in Sims :
          (/\ Len(sims'[s].ops) = Len(sims[s].ops) + 1
           /\ sims'[s].ops[Len(sims'[s].ops)] = "sample")
            => sims'[s].state =
                 apply_operations(sims[s], make_operations(sims[s], gen, rng).args)]_vars

C3_Witness ==
  /\ out.op = "expectation" /\ ~out.raised
  /\ sims["A"].ops = <<"sample">>
  /\ sims["A"].state.k >= 1

\* C3 (as stated): no call of state_to_braket, sample_probability or
\* calculate_expectation_value changes the simulator's state.
C3_AllReadoutsReadOnly == [][(ReadoutCall \/ SampleCall) => StateKept]_vars

---------------------------------------------------------------------------
(* C5, C9: the bra-ket string and the constructor's checks.                *)

\* the positions whose amplitude is above 1e-10 in magnitude
Shown(sim) ==
  {d \in Positions(sim) :
     EntryAt(sim, d) # 0 /\ AboveThreshold(Abs(EntryAt(sim, d)), sim.state.k)}

\* C5: for a state reached by rounds from a basis state, state_to_braket
\* emits one term for each position whose amplitude is above 1e-10 in
\* magnitude, positive or negative, and none for any other, so the labels
\* parsed back from the string are the labels of those positions.
C5_BraketTermPerAmplitude ==
  \A s \in Sims :
    WellFormed(sims[s])
      => LET kets == ParseKets(state_to_braket(sims[s]))
         IN /\ Len(kets) = Cardinality(Shown(sims[s]))
            /\ {kets[i] : i \in 1..Len(kets)}
                 = {<<"|">> \o Label(sims[s].n, d) \o <<"⟩">> : d \in Shown(sims[s])}

\* C9: a constructor given a bitstring with a character other than 0 and 1, or
\* of a length other than n, fails and installs no state, in both engines.
C9_BadBitstringRefused ==
  \A s \in Sims :
    (/\ sims[s].status # "none"
     /\ Given(sims[s].stateArg)
     /\ \/ ~ValidBits(sims[s].stateArg[1])
        \/ Len(sims[s].stateArg[1]) # sims[s].n)
      => sims[s].status = "error"

---------------------------------------------------------------------------
(* C2, C6, C7: two simulators built with the same arguments.               *)

\* both simulators stand, built with the same n, state and seed arguments
Twins ==
  /\ sims["A"].status = "ok" /\ sims["B"].status = "ok"
  /\ sims["A"].n = sims["B"].n
  /\ sims["A"].stateArg = sims["B"].stateArg
  /\ sims["A"].seedArg = sims["B"].seedArg

\* every draw of both simulators came from the generator as the simulator's
\* own constructor and calls left it
Undisturbed == sims["A"].clean /\ sims["B"].clean

\* the seed argument is an integer other than 0
SeedGiven == sims["A"].seedArg # None /\ sims["A"].seedArg[1] # 0

\* C2: a dense and a tensor simulator built with the same seed, n and explicit
\* bitstring draw the same (control, target) pair in their first
\* make_operations, and after one make_operations + apply_operations each
\* hold the same amplitudes, position by position.
C2_EnginesAgree ==
  (/\ Twins /\ Undisturbed /\ SeedGiven
   /\ sims["A"].engine = "sv" /\ sims["B"].engine = "tensor"
   /\ Explicit(sims["A"]) /\ Explicit(sims["B"])
   /\ sims["A"].ops = <<"make", "apply">> /\ sims["B"].ops = <<"make", "apply">>)
    => /\ sims["A"].draws = sims["B"].draws
       /\ sims["A"].state.k = sims["B"].state.k
       /\ \A d \in Positions(sims["A"]) : EntryAt(sims["A"], d) = EntryAt(sims["B"], d)

\* C6: for every integer seed, 0 included, two simulators of one engine built
\* with the same n, state argument and seed and driven through the same
\* operations make the same random choices and hold the same state.
C6_SameSeedSameRun ==
  (/\ Twins /\ Undisturbed
   /\ sims["A"].seedArg # None
   /\ sims["A"].engine = sims["B"].engine
   /\ sims["A"].ops = sims["B"].ops)
    => /\ sims["A"].bitstring = sims["B"].bitstring
       /\ sims["A"].draws = sims["B"].draws
       /\ sims["A"].state = sims["B"].state

\* C7: the pairs a simulator with a given seed draws and the states it
\* reaches depend on its own arguments and operations only: two simulators
\* built alike and driven alike agree, however their calls interleave.
C7_NoInterference ==
  (/\ Twins /\ SeedGiven
   /\ sims["A"].engine = sims["B"].engine
   /\ sims["A"].ops = sims["B"].ops)
    => /\ sims["A"].draws = sims["B"].draws
       /\ sims["A"].state = sims["B"].state

---------------------------------------------------------------------------
(* The value for 'I' as the program's doubles give it. A double is kept by *)
(* its 53-bit significand, a natural number written in limbs of 13 bits,   *)
(* least significant first, so that four limbs are 52 bits.                *)

Radix == Pow2(13)

Limb(x, i) == IF i \in 1..Len(x) THEN x[i] ELSE 0

\* the limbs of a number given by its column sums
RECURSIVE Carry(_, _)
Carry(cols, carry) ==
  IF cols = << >>
  THEN IF carry = 0 THEN << >> ELSE <<carry % Radix>> \o Carry(<< >>, carry \div Radix)
  ELSE <<(Head(cols) + carry) % Radix>> \o Carry(Tail(cols), (Head(cols) + carry) \div Radix)

BigAdd(x, y) ==
  Carry([c \in 1..(IF Len(x) > Len(y) THEN Len(x) ELSE Len(y)) |->
           Limb(x, c) + Limb(y, c)], 0)

BigMul(x, y) ==
  Carry([c \in 1..(Len(x) + Len(y) - 1) |->
           SumSeq([i \in 1..Len(x) |-> x[i] * Limb(y, c - i + 1)])], 0)

\* x times a small natural number
Times(x, c) == Carry([i \in 1..Len(x) |-> c * x[i]], 0)

RECURSIVE BigLessFrom(_, _, _)
BigLessFrom(x, y, i) ==
  IF i = 0 THEN FALSE
  ELSE IF Limb(x, i) # Limb(y, i) THEN Limb(x, i) < Limb(y, i)
  ELSE BigLessFrom(x, y, i - 1)

BigLess(x, y) == BigLessFrom(x, y, IF Len(x) > Len(y) THEN Len(x) ELSE Len(y))

BigEqual(x, y) == ~BigLess(x, y) /\ ~BigLess(y, x)

\* 2^e
Big2Pow(e) == [i \in 1..(e \div 13) |-> 0] \o <<Pow2(e % 13)>>

\* x div 2^52 and x mod 2^52
High52(x) == SubSeq(x, 5, Len(x))
Low52(x) == [i \in 1..4 |-> Limb(x, i)]

\* x div 2
Half(x) == [i \in 1..Len(x) |-> (x[i] \div 2) + (Limb(x, i + 1) % 2) * (Radix \div 2)]

\* x / 2^52 rounded to the nearest natural number, ties to the even one
Round52(x) ==
  LET q == High52(x)
      r == Low52(x)
      up == \/ BigLess(Big2Pow(51), r)
            \/ BigEqual(r, Big2Pow(51)) /\ Limb(q, 1) % 2 = 1
  IN IF up THEN BigAdd(q, <<1>>) ELSE q

\* x / 2^53 rounded to the nearest natural number, ties to the even one
Round53(x) ==
  LET u == High52(x)
      r == Low52(x)
      q == Half(u)
      up == /\ Limb(u, 1) % 2 = 1
            /\ \/ BigLess(<<0>>, r)
               \/ Limb(q, 1) % 2 = 1
  IN IF up THEN BigAdd(q, <<1>>) ELSE q

\* np.sqrt(2), in units of 2^-52
Sqrt2Double == <<7117, 5113, 1945, 3393, 1>>

\* 1/np.sqrt(2), the entry of H, in units of 2^-53
HEntryDouble == <<7116, 5113, 1945, 3393, 1>>

\* Sqrt2Double is the double nearest to the square root of 2 and HEntryDouble
\* the double nearest to its inverse
CorrectlyRounded ==
  LET S == Sqrt2Double
      A == HEntryDouble
      SS4 == Times(BigMul(S, S), 4)
      AS2 == Times(BigMul(A, S), 2)
  IN /\ BigLess(BigAdd(SS4, <<1>>), BigAdd(Big2Pow(107), Times(S, 4)))
     /\ BigLess(Big2Pow(107), BigAdd(BigAdd(SS4, Times(S, 4)), <<1>>))
     /\ BigLess(AS2, BigAdd(Big2Pow(106), S))
     /\ BigLess(Big2Pow(106), BigAdd(AS2, S))

\* the exact square of the entry of H, in units of 2^-106
HEntrySquared == BigMul(HEntryDouble, HEntryDouble)

\* the double product of two entries of H, in units of 2^-54
HEntryProduct == Round52(HEntrySquared)

\* 1.0 in units of 2^-53
DoubleOne == Big2Pow(53)

\* the states whose entries are known as doubles: a basis state before any
\* round (entries 0 and 1), and the state after the first round when it
\* applied one Hadamard (two entries of magnitude 1/np.sqrt(2))
OnBasis(sim) == sim.ops = << >>
OneHadamard(sim) == sim.ops = <<"make", "apply">> /\ sim.state.k = 1
DoubleKnown(sim) == OnBasis(sim) \/ OneHadamard(sim)

\* the doubles, in units of 2^-53, that state @ Gate_n @ state.T can be for
\* 'I' on such a state: the sum of the rounded products, or a product added
\* to the other without rounding it first (a fused multiply-add)
ExpectationOfIDoubles(sim) ==
  IF OnBasis(sim) THEN {DoubleOne}
  ELSE {HEntryProduct,
        Round53(BigAdd(HEntrySquared, [i \in 1..4 |-> 0] \o HEntryProduct))}

\* a returned value num * (1/sqrt 2)^k lies in [-1, 1]
InUnitInterval(v) == ~IsError(v) /\ v.num * v.num <= Pow2(v.k)

\* the simulator whose expectation value was just returned
Measured == sims[out.sim]

\* C11: in every state reached from a basis state by rounds,
\* calculate_expectation_value returns, rounding of the doubles apart, a value
\* in [-1, 1] for 'X', 'Y' and 'Z' and the value 1 for 'I'; the double it
\* returns for 'I' is 1.0 on a basis state and at most 2^-52 below 1.0 after a
\* first round with one Hadamard; before any round the value for 'X' is 0.
C11_ExpectationValues ==
  (out.op = "expectation" /\ ~out.raised /\ WellFormed(Measured))
    => /\ \A gate \in {"X", "Y", "Z"} :
            InUnitInterval(calculate_expectation_value(Measured, gate))
       /\ calculate_expectation_value(Measured, "I") = [num |-> 1, k |-> 0]
       /\ (DoubleKnown(Measured)
             => \A v \in ExpectationOfIDoubles(Measured) :
                  /\ ~BigLess(DoubleOne, v)
                  /\ ~BigLess(BigAdd(v, <<2>>), DoubleOne))
       /\ (OnBasis(Measured)
             => /\ calculate_expectation_value(Measured, "X") = [num |-> 0, k |-> 0]
                /\ ExpectationOfIDoubles(Measured) = {DoubleOne})

\* after a first round the simulator is in a superposition of two basis
\* states, the value -1 is returned for one of 'X', 'Y', 'Z', and the double
\* returned for 'I' is below 1.0
C11_Witness ==
  /\ out.op = "expectation" /\ ~out.raised /\ WellFormed(Measured)
  /\ OneHadamard(Measured)
  /\ \E gate \in {"X", "Y", "Z"} :
       calculate_expectation_value(Measured, gate) = [num |-> -1, k |-> 0]
  /\ calculate_expectation_value(Measured, "I") = [num |-> 1, k |-> 0]
  /\ CorrectlyRounded
  /\ \A v \in ExpectationOfIDoubles(Measured) : BigLess(v, DoubleOne)

\* C11 as stated: the value returned for 'I' is exactly 1 in every such state
C11_IdentityExactlyOne ==
  (out.op = "expectation" /\ ~out.raised /\ WellFormed(Measured))
    => /\ \A gate \in {"X", "Y", "Z"} :
            InUnitInterval(calculate_expectation_value(Measured, gate))
       /\ (DoubleKnown(Measured)
             => \A v \in ExpectationOfIDoubles(Measured) : BigEqual(v, DoubleOne))
       /\ (OnBasis(Measured)
             => calculate_expectation_value(Measured, "X") = [num |-> 0, k |-> 0])

---------------------------------------------------------------------------
(* C12: one round of the dense engine, entry by entry.                     *)

\* the local gates in composition order with the Identity of an odd n last
GatesIdentityLast(n) ==
  [j \in 1..n |-> IF j <= n \div 2 THEN H ELSE IF j <= 2 * (n \div 2) THEN X ELSE I]

\* the local gates in composition order with the Identity of an odd n at
\* position n \div 2 (counted from 0), between the two halves
GatesIdentityMiddle(n) ==
  [j \in 1..n |-> IF j <= n \div 2 THEN H
                  ELSE IF n % 2 = 1 /\ j = (n \div 2) + 1 THEN I ELSE X]

\* the entry of the ordered Kronecker product of the gates at row r and column
\* c: the product of the gates' entries at the bits of r and c, the first gate
\* at the most significant bit
RECURSIVE LocalEntry(_, _, _, _)
LocalEntry(gates, r, c, j) ==
  IF j > Len(gates) THEN 1
  ELSE gates[j].e[BitOf(r, Len(gates) - j) + 1][BitOf(c, Len(gates) - j) + 1]
         * LocalEntry(gates, r, c, j + 1)

\* where the controlled-X takes the basis position d
Controlled(d, control, target) ==
  IF BitOf(d, control) = 0 THEN d ELSE FlipBit(d, target)

\* controlledOp . localOp . state, entry by entry
RoundResult(gates, state, control, target) ==
  Canon([e |-> [i \in 1..Len(state.e) |->
                  <<SumSeq([c \in 1..Len(state.e) |->
                              LocalEntry(gates, Controlled(i - 1, control, target), c - 1, 1)
                                * state.e[c][1]])>>],
         k |-> state.k + SumSeq([j \in 1..Len(gates) |-> gates[j].k])])

\* a step that completes a round of the dense simulator A on n >= 2 qubits:
\* apply_operations right after make_operations, or the round that
\* sample_probability runs
DenseRound ==
  /\ WellFormed(sims["A"])
  /\ sims["A"].engine = "sv"
  /\ sims["A"].n >= 2
  /\ \/ /\ sims["A"].ops # << >>
        /\ sims["A"].ops[Len(sims["A"].ops)] = "make"
        /\ sims'["A"].ops = Append(sims["A"].ops, "apply")
     \/ sims'["A"].ops = Append(sims["A"].ops, "sample")

\* the pair drawn by the round's make_operations
RoundPair == sims'["A"].draws[Len(sims'["A"].draws)]

\* C12: for n >= 2 one round of the dense engine replaces the state by
\* controlledOp . localOp . state, where localOp is the ordered Kronecker
\* product with Hadamard at the first n // 2 positions, Pauli-X at the next
\* n // 2 positions and, when n is odd, Identity at the last position, and
\* controlledOp is the controlled-X of a drawn pair with control # target.
C12_RoundIdentityLast ==
  [][DenseRound
       => /\ RoundPair[1] # RoundPair[2]
          /\ sims'["A"].state = RoundResult(GatesIdentityLast(sims["A"].n), sims["A"].state,
                                            RoundPair[1], RoundPair[2])]_vars

\* a dense simulator on three qubits built on '000' has done one round
C12_Witness ==
  /\ WellFormed(sims["A"])
  /\ sims["A"].engine = "sv" /\ sims["A"].n = 3
  /\ sims["A"].bitstring = <<"0", "0", "0">>
  /\ sims["A"].ops = <<"make", "apply">>
  /\ Len(sims["A"].draws) = 1
  /\ sims["A"].draws[1][1] # sims["A"].draws[1][2]
  /\ sims["A"].state = RoundResult(<<H, X, I>>, [e |-> BasisColumn(3, 0), k |-> 0],
                                   sims["A"].draws[1][1], sims["A"].draws[1][2])
  /\ sims["A"].state # RoundResult(<<H, I, X>>, [e |-> BasisColumn(3, 0), k |-> 0],
                                   sims["A"].draws[1][1], sims["A"].draws[1][2])

\* C12 as stated: when n is odd the Identity is at position n // 2 of the
\* composition order
C12_RoundIdentityMiddle ==
  [][DenseRound
       => /\ RoundPair[1] # RoundPair[2]
          /\ sims'["A"].state = RoundResult(GatesIdentityMiddle(sims["A"].n), sims["A"].state,
                                            RoundPair[1], RoundPair[2])]_vars

====
